---- MODULE Spec2Model ----
(***************************************************************************)
(* AYUSH health analytics: the scoring engine of utils/ayush-algorithms    *)
(* (calculateDoshaProfile, predictDiseases, calculateLifestyleRisk), the   *)
(* App wizard that calls it, and the server that stores its results.       *)
(*                                                                         *)
(* Units.  Hours (sleepHours, screenTime) are held in half hours, the      *)
(* step of the two form inputs, and lifestyle scores in half points, so    *)
(* that (screenTime - 8) * 3 stays an integer: a score of 15 points is 30. *)
(* A probability p is held as the integer p * 1000 * height^2 (field pm),  *)
(* the common denominator of every formula of predictDiseases, together    *)
(* with the offset (field ulp) of the IEEE double the code computes from   *)
(* the double nearest to that exact value.                                 *)
(***************************************************************************)
EXTENDS Integers, Sequences, FiniteSets, TLC

VARIABLES
    params,           \* HealthParameters passed to the scoring functions
    lifestyle,        \* LifestyleFactors passed to the scoring functions
    scores,           \* what calculateDoshaProfile returned (<<>> before)
    diseases,         \* what predictDiseases returned       (<<>> before)
    risk,             \* what calculateLifestyleRisk returned (<<>> before)
    step,             \* App: 'auth' | 'dosha' | 'lifestyle' | 'dashboard'
    accessToken,      \* App state
    healthParams,     \* App state
    lifestyleFactors, \* App state
    doshaScores,      \* App state
    predictions,      \* App state
    lifestyleRisk,    \* App state
    loading,          \* App state
    handler,          \* the async handler in progress and its closure
    session,          \* what checkSession awaits, 'done' once it returned
    logout,           \* handleLogout awaits signOut
    kv,               \* server: the key-value store, key -> stored record
    clock,            \* server: the time new Date() reads, in milliseconds
    requests,         \* server: the requests received, in order of arrival
    saved             \* server: who wrote and who completed last, per slot

vars == <<params, lifestyle, scores, diseases, risk, step, accessToken,
          healthParams, lifestyleFactors, doshaScores, predictions,
          lifestyleRisk, loading, handler, session, logout, kv, clock,
          requests, saved>>

engineVars == <<params, lifestyle, scores, diseases, risk>>

appVars == <<step, accessToken, healthParams, lifestyleFactors, doshaScores,
             predictions, lifestyleRisk, loading, handler, session, logout>>

serverVars == <<kv, clock, requests, saved>>

\* null / an absent value, and a present one
Null == <<>>
Some(x) == <<x>>

\* a property that is absent from the object, or holds a value outside the
\* declared union: every === against a literal of the union is false
Undefined == "undefined"

----------------------------------------------------------------------------
(* The declared domains of HealthParameters and LifestyleFactors.          *)

BodyTemperatures == {"cold", "neutral", "warm"}
Digestions == {"irregular", "strong", "slow"}
SleepPatterns == {"light", "moderate", "deep"}
EnergyLevels == {"variable", "high", "steady"}
SkinTypes == {"dry", "oily", "normal"}
StressLevels == {"high", "moderate", "low"}
ExerciseFrequencies == {"daily", "weekly", "rarely"}

Diets == {"vegetarian", "non-vegetarian", "vegan"}
MealTimings == {"regular", "irregular"}
WaterIntakes == {"low", "moderate", "high"}
StressManagements == {"yoga", "meditation", "none", "other"}

\* greatest sleepHours and screenTime drawn, in half hours
MaxSleepHalf == 16
MaxScreenHalf == 38

\* the inputs drawn for age and for (weight, height)
Ages == {30}
BodySizes == {<<70, 170>>, <<100, 200>>, <<110, 200>>, <<120, 200>>,
              <<130, 200>>}

HealthParameters(temps, digs, sleeps, energies, skins, stresses, freqs, sizes) ==
    { [age |-> a, weight |-> wh[1], height |-> wh[2],
       bodyTemperature |-> bt, digestion |-> dg, sleepPattern |-> sp,
       energyLevel |-> en, skinType |-> sk, stressLevel |-> st,
       exerciseFrequency |-> ef] :
        a \in Ages, wh \in sizes, bt \in temps, dg \in digs, sp \in sleeps,
        en \in energies, sk \in skins, st \in stresses, ef \in freqs }

\* every field inside its declared union, weight and height positive
ValidParams(p) ==
    /\ p.bodyTemperature \in BodyTemperatures
    /\ p.digestion \in Digestions
    /\ p.sleepPattern \in SleepPatterns
    /\ p.energyLevel \in EnergyLevels
    /\ p.skinType \in SkinTypes
    /\ p.stressLevel \in StressLevels
    /\ p.exerciseFrequency \in ExerciseFrequencies
    /\ p.weight > 0
    /\ p.height > 0

LifestyleFactors(meals, waters, sleeps, managements, screens, freqs) ==
    { [diet |-> "vegetarian", mealTiming |-> mt, waterIntake |-> wi,
       sleepHours |-> sh, exerciseMinutes |-> 30, stressManagement |-> sm,
       screenTime |-> sc, exerciseFrequency |-> ef] :
        mt \in meals, wi \in waters, sh \in sleeps, sm \in managements,
        sc \in screens, ef \in freqs }

\* a value of the declared interface LifestyleFactors: it has no
\* exerciseFrequency property
ValidLifestyle(l) ==
    /\ l.diet \in Diets
    /\ l.mealTiming \in MealTimings
    /\ l.waterIntake \in WaterIntakes
    /\ l.stressManagement \in StressManagements
    /\ l.sleepHours >= 0
    /\ l.screenTime >= 0
    /\ l.exerciseMinutes >= 0
    /\ l.exerciseFrequency = Undefined

\* an input that plays no part in the specification at hand
SomeParams ==
    [age |-> 30, weight |-> 70, height |-> 170, bodyTemperature |-> "cold",
     digestion |-> "irregular", sleepPattern |-> "light",
     energyLevel |-> "variable", skinType |-> "dry", stressLevel |-> "high",
     exerciseFrequency |-> "rarely"]

SomeLifestyle ==
    [diet |-> "vegetarian", mealTiming |-> "regular", waterIntake |-> "high",
     sleepHours |-> 16, exerciseMinutes |-> 30, stressManagement |-> "yoga",
     screenTime |-> 4, exerciseFrequency |-> Undefined]

----------------------------------------------------------------------------
(* calculateDoshaProfile                                                   *)

\* Math.round(n / d * 100) for n >= 0, d > 0: the nearest integer, a half
\* rounded up
RoundPercent(n, d) == (200 * n + d) \div (2 * d)

\* VataPoints with the digestion weight of 3 mistyped as 2
VataPointsMutant(p) ==
      (IF p.bodyTemperature = "cold" THEN 2 ELSE 0)
    + (IF p.digestion = "irregular" THEN 2 ELSE 0)
    + (IF p.sleepPattern = "light" THEN 2 ELSE 0)
    + (IF p.energyLevel = "variable" THEN 2 ELSE 0)
    + (IF p.skinType = "dry" THEN 2 ELSE 0)
    + (IF p.stressLevel = "high" THEN 2 ELSE 0)

\* the points the if-statements add to vata
VataPoints(p) ==
      (IF p.bodyTemperature = "cold" THEN 2 ELSE 0)
    + (IF p.digestion = "irregular" THEN 3 ELSE 0)
    + (IF p.sleepPattern = "light" THEN 2 ELSE 0)
    + (IF p.energyLevel = "variable" THEN 2 ELSE 0)
    + (IF p.skinType = "dry" THEN 2 ELSE 0)
    + (IF p.stressLevel = "high" THEN 2 ELSE 0)

\* PittaPoints with a point for daily exercise
PittaPointsMutant(p) ==
      (IF p.bodyTemperature = "warm" THEN 2 ELSE 0)
    + (IF p.digestion = "strong" THEN 3 ELSE 0)
    + (IF p.sleepPattern = "moderate" THEN 2 ELSE 0)
    + (IF p.energyLevel = "high" THEN 2 ELSE 0)
    + (IF p.skinType = "oily" THEN 2 ELSE 0)
    + (IF p.stressLevel = "moderate" THEN 1 ELSE 0)
    + (IF p.exerciseFrequency = "daily" THEN 1 ELSE 0)

\* the points the if-statements add to pitta
PittaPoints(p) ==
      (IF p.bodyTemperature = "warm" THEN 2 ELSE 0)
    + (IF p.digestion = "strong" THEN 3 ELSE 0)
    + (IF p.sleepPattern = "moderate" THEN 2 ELSE 0)
    + (IF p.energyLevel = "high" THEN 2 ELSE 0)
    + (IF p.skinType = "oily" THEN 2 ELSE 0)
    + (IF p.stressLevel = "moderate" THEN 1 ELSE 0)

\* KaphaPoints with the 'neutral' test written as the else of 'warm'
KaphaPointsMutant(p) ==
      (IF p.bodyTemperature # "warm" THEN 1 ELSE 0)
    + (IF p.digestion = "slow" THEN 3 ELSE 0)
    + (IF p.sleepPattern = "deep" THEN 2 ELSE 0)
    + (IF p.energyLevel = "steady" THEN 2 ELSE 0)
    + (IF p.skinType = "normal" THEN 1 ELSE 0)
    + (IF p.stressLevel = "low" THEN 1 ELSE 0)

\* the points the if-statements add to kapha
KaphaPoints(p) ==
      (IF p.bodyTemperature = "neutral" THEN 1 ELSE 0)
    + (IF p.digestion = "slow" THEN 3 ELSE 0)
    + (IF p.sleepPattern = "deep" THEN 2 ELSE 0)
    + (IF p.energyLevel = "steady" THEN 2 ELSE 0)
    + (IF p.skinType = "normal" THEN 1 ELSE 0)
    + (IF p.stressLevel = "low" THEN 1 ELSE 0)

\* TotalPoints with kapha subtracted
TotalPointsMutant(p) == VataPoints(p) + PittaPoints(p) - KaphaPoints(p)

\* const total = vata + pitta + kapha
TotalPoints(p) == VataPoints(p) + PittaPoints(p) + KaphaPoints(p)

\* The returned DoshaScores.  With total = 0 each field is Math.round(0/0 *
\* 100) = NaN: nan is TRUE and the three numbers are meaningless.
calculateDoshaProfile(p) ==
    LET total == TotalPoints(p) IN
    IF total = 0
    THEN [vata |-> 0, pitta |-> 0, kapha |-> 0, nan |-> TRUE]
    ELSE [vata |-> RoundPercent(VataPoints(p), total),
          pitta |-> RoundPercent(PittaPoints(p), total),
          kapha |-> RoundPercent(KaphaPoints(p), total),
          nan |-> FALSE]

----------------------------------------------------------------------------
(* predictDiseases                                                         *)

Max(a, b) == IF a > b THEN a ELSE b
Min(a, b) == IF a < b THEN a ELSE b

\* ScoreAbove with the comparison written >=
ScoreAboveMutant(d, dosha, c) == ~d.nan /\ d[dosha] >= c

\* doshaScores.<dosha> > c; a comparison with NaN is false
ScoreAbove(d, dosha, c) == ~d.nan /\ d[dosha] > c

\* bmi > c for bmi = weight / Math.pow(height / 100, 2).  On the body sizes
\* drawn here the double quotient lies on the same side of 25 and of 30 as
\* the exact one.
BmiAbove(p, c) == 10000 * p.weight > c * p.height * p.height

\* The doubles the probability formulas produce are not always the doubles
\* nearest to their decimal values: 0.5 + 45/250 is 0.6799999999999999, not
\* 0.68.  For each formula, the percentages at which the double lies one
\* unit in the last place above (Up) or below (Down) the nearest double.
AnxietyUp == {59, 61, 63, 65, 67, 73, 77, 81, 98}
DigestiveUp == {41, 42, 97, 98, 99, 100} \cup (66..85)
HyperacidityDown == {41, 42, 58, 60, 62, 64, 66, 94, 98}
SkinUp == 91..100
SkinDown == {59}
SluggishUp == 79..85
SluggishDown == 43..46
\* the same for 0.55 + kapha/200 + (bmi - 25)/50, by weight at height 200
MetabolicUp(w) ==
    CASE w = 110 -> (43..56) \cup {58, 60, 62, 64, 66} \cup (69..79)
                        \cup {81, 83, 85, 87, 89, 91, 93, 97}
      [] w = 120 -> {58, 60, 62, 64, 66, 68, 71, 73, 75, 77, 79, 81, 83, 85,
                     87, 89, 91, 93, 96, 97, 98, 100}
      [] w = 130 -> (48..56) \cup {58}
      [] OTHER -> {}
MetabolicUp2(w) == IF w = 110 THEN {68} ELSE {}
MetabolicDown(w) ==
    CASE w = 120 -> {57}
      [] w = 130 -> {82, 84, 95, 99}
      [] OTHER -> {}

Ulp(x, up, down) == IF x \in up THEN 1 ELSE IF x \in down THEN -1 ELSE 0

\* the number (permille / 1000) as a probability of this call: permille *
\* height^2, offset by ulp units in the last place
Probability(p, permille, ulp) ==
    [pm |-> permille * p.height * p.height, ulp |-> ulp]

\* probability: 0.65 + (doshaScores.vata / 200)
AnxietyProbability(d, p) ==
    Probability(p, 650 + 5 * d.vata, Ulp(d.vata, AnxietyUp, {}))

\* probability: 0.55 + (doshaScores.vata / 250)
DigestiveProbability(d, p) ==
    Probability(p, 550 + 4 * d.vata, Ulp(d.vata, DigestiveUp, {}))

\* probability: 0.60 + (doshaScores.pitta / 200)
HyperacidityProbability(d, p) ==
    Probability(p, 600 + 5 * d.pitta, Ulp(d.pitta, {}, HyperacidityDown))

\* probability: 0.45 + (doshaScores.pitta / 250)
SkinProbability(d, p) ==
    Probability(p, 450 + 4 * d.pitta, Ulp(d.pitta, SkinUp, SkinDown))

\* probability: 0.55 + (doshaScores.kapha / 200) + ((bmi - 25) / 50), which
\* is (50 + 5 kapha) / 1000 + 200 weight / height^2
MetabolicProbability(d, p) ==
    [pm |-> (50 + 5 * d.kapha) * p.height * p.height + 200000 * p.weight,
     ulp |-> IF d.kapha \in MetabolicUp2(p.weight) THEN 2
             ELSE Ulp(d.kapha, MetabolicUp(p.weight), MetabolicDown(p.weight))]

\* probability: 0.50 + (doshaScores.kapha / 250)
SluggishProbability(d, p) ==
    Probability(p, 500 + 4 * d.kapha, Ulp(d.kapha, SluggishUp, SluggishDown))

Finding(name, prob, sev, system) ==
    [disease |-> name, probability |-> prob, severity |-> sev, ayushSystem |-> system]

\* predictions.push(...) when the guard holds (the recommendation texts, a
\* literal per rule, are left out of the record)
PushIf(guard, finding) == IF guard THEN <<finding>> ELSE <<>>

\* the array predictions before it is sorted: the ten rules in source order
PushedPredictions(d, l, p) ==
    PushIf(ScoreAbove(d, "vata", 40) /\ p.stressLevel = "high" /\ l.sleepHours < 12,
           Finding("Anxiety & Sleep Disorders", AnxietyProbability(d, p),
                   IF d.vata > 50 THEN "high" ELSE "moderate", "Ayurveda"))
    \o PushIf(ScoreAbove(d, "vata", 40) /\ p.digestion = "irregular",
           Finding("Digestive Irregularity (Vishamagni)", DigestiveProbability(d, p),
                   "moderate", "Ayurveda"))
    \o PushIf(ScoreAbove(d, "pitta", 40) /\ p.stressLevel = "high"
                /\ l.mealTiming = "irregular",
           Finding("Hyperacidity & Inflammatory Conditions", HyperacidityProbability(d, p),
                   IF d.pitta > 50 THEN "high" ELSE "moderate", "Ayurveda"))
    \o PushIf(ScoreAbove(d, "pitta", 40) /\ p.bodyTemperature = "warm",
           Finding("Skin Inflammation & Rashes", SkinProbability(d, p),
                   "moderate", "Ayurveda"))
    \o PushIf(ScoreAbove(d, "kapha", 40) /\ BmiAbove(p, 25)
                /\ l.exerciseFrequency = "rarely",
           Finding("Metabolic Syndrome Risk", MetabolicProbability(d, p),
                   IF BmiAbove(p, 30) THEN "high" ELSE "moderate", "Ayurveda & Yoga"))
    \o PushIf(ScoreAbove(d, "kapha", 40) /\ p.digestion = "slow"
                /\ l.waterIntake = "low",
           Finding("Sluggish Digestion & Water Retention", SluggishProbability(d, p),
                   "moderate", "Ayurveda & Naturopathy"))
    \o PushIf(l.screenTime > 16 /\ p.stressLevel = "high",
           Finding("Digital Eye Strain & Mental Fatigue", Probability(p, 700, 0),
                   "moderate", "Yoga & Naturopathy"))
    \o PushIf(l.sleepHours < 12,
           Finding("Sleep Deprivation Syndrome", Probability(p, 750, 0),
                   IF l.sleepHours < 10 THEN "high" ELSE "moderate", "Ayurveda & Yoga"))
    \o PushIf(l.stressManagement = "none" /\ p.stressLevel = "high",
           Finding("Chronic Stress & Burnout Risk", Probability(p, 680, 0),
                   "high", "Yoga & Ayurveda"))
    \o PushIf(p.energyLevel = "variable" /\ ScoreAbove(d, "vata", 35),
           Finding("Constitutional Weakness", Probability(p, 500, 0),
                   "low", "Homeopathy & Ayurveda"))

\* ProbLess with the operands exchanged: the sort ascends
ProbLessMutant(a, b) == b.pm < a.pm \/ (a.pm = b.pm /\ b.ulp < a.ulp)

\* a.probability < b.probability on the doubles
ProbLess(a, b) == a.pm < b.pm \/ (a.pm = b.pm /\ a.ulp < b.ulp)

\* InsertByProbability with the comparison turned into <=: an unstable sort
InsertByProbabilityMutant(sorted, x) ==
    LET before == { i \in 1..Len(sorted) :
                      \A j \in 1..i : ProbLess(x.probability, sorted[j].probability) }
        n == Cardinality(before)
    IN SubSeq(sorted, 1, n) \o <<x>> \o SubSeq(sorted, n + 1, Len(sorted))

\* x placed behind every element the comparator (b.probability -
\* a.probability) does not put behind it: Array.prototype.sort is stable
InsertByProbability(sorted, x) ==
    LET before == { i \in 1..Len(sorted) :
                      \A j \in 1..i : ~ProbLess(sorted[j].probability, x.probability) }
        n == Cardinality(before)
    IN SubSeq(sorted, 1, n) \o <<x>> \o SubSeq(sorted, n + 1, Len(sorted))

\* SortByProbability losing the first element pushed
RECURSIVE SortByProbabilityMutant(_)
SortByProbabilityMutant(s) ==
    IF Len(s) <= 1 THEN <<>>
    ELSE InsertByProbability(SortByProbabilityMutant(SubSeq(s, 1, Len(s) - 1)), s[Len(s)])

\* predictions.sort((a, b) => b.probability - a.probability)
RECURSIVE SortByProbability(_)
SortByProbability(s) ==
    IF s = <<>> THEN <<>>
    ELSE InsertByProbability(SortByProbability(SubSeq(s, 1, Len(s) - 1)), s[Len(s)])

predictDiseases(d, l, p) == SortByProbability(PushedPredictions(d, l, p))

----------------------------------------------------------------------------
(* calculateLifestyleRisk                                                  *)

\* n points, in the half points scores are held in
Points(n) == 2 * n

\* Math.max(0, (7 - lifestyle.sleepHours) * 10)
SleepRisk(l) == Max(0, (14 - l.sleepHours) * 10)

\* lifestyle.exerciseFrequency === 'daily' ? 0 :
\* lifestyle.exerciseFrequency === 'weekly' ? 15 : 30
ExerciseRisk(l) ==
    IF l.exerciseFrequency = "daily" THEN 0
    ELSE IF l.exerciseFrequency = "weekly" THEN Points(15) ELSE Points(30)

\* StressRisk without the test of params.stressLevel
StressRiskMutant(l, p) ==
    IF l.stressManagement = "none" THEN Points(25) ELSE 0

\* none && stressLevel high ? 25 : none ? 15 : 0
StressRisk(l, p) ==
    IF l.stressManagement = "none" /\ p.stressLevel = "high" THEN Points(25)
    ELSE IF l.stressManagement = "none" THEN Points(15) ELSE 0

\* Math.min(30, Math.max(0, (lifestyle.screenTime - 8) * 3))
ScreenRisk(l) == Min(Points(30), Max(0, (l.screenTime - 16) * 3))

\* lifestyle.waterIntake === 'low' ? 15 : 0
WaterRisk(l) == IF l.waterIntake = "low" THEN Points(15) ELSE 0

\* lifestyle.mealTiming === 'irregular' ? 20 : 0
MealRisk(l) == IF l.mealTiming = "irregular" THEN Points(20) ELSE 0

Factor(name, text, sc) == [factor |-> name, impact |-> text, score |-> sc]

\* SleepImpact with the threshold test written >= 20
SleepImpactMutant(sleepRisk) ==
    IF sleepRisk >= Points(20) THEN "High impact on health" ELSE "Moderate impact"

\* impact: sleepRisk > 20 ? 'High impact on health' : 'Moderate impact'
SleepImpact(sleepRisk) ==
    IF sleepRisk > Points(20) THEN "High impact on health" ELSE "Moderate impact"

\* impact: exerciseRisk > 20 ? 'High impact on metabolism' : 'Moderate impact'
ExerciseImpact(exerciseRisk) ==
    IF exerciseRisk > Points(20) THEN "High impact on metabolism" ELSE "Moderate impact"

\* PushFactor with the test written >= 0
PushFactorMutant(sc, name, text) ==
    IF sc >= 0 THEN <<Factor(name, text, sc)>> ELSE <<>>

\* if (xRisk > 0) { riskFactors.push(...); totalRisk += xRisk }
PushFactor(sc, name, text) == IF sc > 0 THEN <<Factor(name, text, sc)>> ELSE <<>>

\* the array riskFactors before it is sorted: the six terms in source order
PushedFactors(l, p) ==
    PushFactor(SleepRisk(l), "Inadequate Sleep", SleepImpact(SleepRisk(l)))
    \o PushFactor(ExerciseRisk(l), "Low Physical Activity", ExerciseImpact(ExerciseRisk(l)))
    \o PushFactor(StressRisk(l, p), "Poor Stress Management", "High impact on mental health")
    \o PushFactor(ScreenRisk(l), "Excessive Screen Time", "Impact on eyes and posture")
    \o PushFactor(WaterRisk(l), "Low Water Intake", "Impact on digestion and detoxification")
    \o PushFactor(MealRisk(l), "Irregular Meal Times", "Impact on digestion and metabolism")

\* totalRisk: the sum of the scores pushed
RECURSIVE SumScores(_)
SumScores(s) == IF s = <<>> THEN 0 ELSE s[1].score + SumScores(Tail(s))

TotalRisk(l, p) == SumScores(PushedFactors(l, p))

\* InsertByScore placing x before the elements of equal score
InsertByScoreMutant(sorted, x) ==
    LET before == { i \in 1..Len(sorted) : \A j \in 1..i : sorted[j].score > x.score }
        n == Cardinality(before)
    IN SubSeq(sorted, 1, n) \o <<x>> \o SubSeq(sorted, n + 1, Len(sorted))

\* x placed behind every element whose score is not smaller (stable sort)
InsertByScore(sorted, x) ==
    LET before == { i \in 1..Len(sorted) : \A j \in 1..i : sorted[j].score >= x.score }
        n == Cardinality(before)
    IN SubSeq(sorted, 1, n) \o <<x>> \o SubSeq(sorted, n + 1, Len(sorted))

\* riskFactors.sort((a, b) => b.score - a.score)
RECURSIVE SortByScore(_)
SortByScore(s) ==
    IF s = <<>> THEN <<>>
    ELSE InsertByScore(SortByScore(SubSeq(s, 1, Len(s) - 1)), s[Len(s)])

\* OverallRisk without the Math.min
OverallRiskMutant(totalRisk) == totalRisk

\* overallRisk: Math.min(100, totalRisk)
OverallRisk(totalRisk) == Min(Points(100), totalRisk)

calculateLifestyleRisk(l, p) ==
    [overallRisk |-> OverallRisk(TotalRisk(l, p)),
     riskFactors |-> SortByScore(PushedFactors(l, p))]

----------------------------------------------------------------------------
(* The server: the Hono handlers over the key-value store of kv_store.tsx. *)
(* A stored record {...body, timestamp} is held as its body and timestamp. *)

Users == {"u1", "u2"}

\* the access tokens supabase.auth has issued, and their users
IssuedTokens == {"token-u1", "token-u2"}

UserOf(token) == IF token = "token-u1" THEN "u1" ELSE "u2"

\* verifyUser with a token accepted for the user it names, unverified
verifyUserMutant(token) ==
    IF token \in IssuedTokens THEN Some(UserOf(token))
    ELSE IF token = "forged-u1" THEN Some("u1") ELSE Null

\* verifyUser: null for a missing token and for one getUser rejects, else the
\* user
verifyUser(token) ==
    IF token = Undefined THEN Null
    ELSE IF token \in IssuedTokens THEN Some(UserOf(token)) ELSE Null

\* the categories saved under 'latest', and those that also keep a history
Categories == {"dosha", "health", "predictions", "lifestyle"}

HistoryCategories == {"dosha", "health", "predictions"}

\* `user:${userId}:profile`
ProfileKey(user) == <<user, "profile", "", 0>>

\* LatestKey with the category of the handler it was copied from
LatestKeyMutant(user, category) == <<user, "dosha", "latest", 0>>

\* `user:${user.id}:dosha:latest`, and so for each category
LatestKey(user, category) == <<user, category, "latest", 0>>

\* `user:${user.id}:dosha:history:${timestamp}`
HistoryKey(user, category, timestamp) == <<user, category, "history", timestamp>>

\* HasHistoryPrefix with the prefix `${type}:history:`, without the user
HasHistoryPrefixMutant(key, user, type) ==
    key[2] = type /\ key[3] = "history"

\* the key starts with `user:${user.id}:${type}:history:`
HasHistoryPrefix(key, user, type) ==
    key[1] = user /\ key[2] = type /\ key[3] = "history"

\* { ...assessment, timestamp }
Stored(body, timestamp) == [body |-> body, timestamp |-> timestamp]

\* the profile signup stored for the user: { id, email, name, createdAt }
Profile(user) == Stored(0, 0)

\* kv.set(key, value): the store with value under key, replacing what was
\* there
KvSet(store, key, value) ==
    [k \in DOMAIN store \cup {key} |-> IF k = key THEN value ELSE store[k]]

\* kv.get(key): the value under key, or none
KvGet(store, key) == IF key \in DOMAIN store THEN Some(store[key]) ELSE Null

\* kv.getByPrefix(prefix): the values under the keys with the prefix
KvGetByPrefix(store, user, type) ==
    { store[k] : k \in { x \in DOMAIN store : HasHistoryPrefix(x, user, type) } }

\* history.sort((a, b) => new Date(b.timestamp) - new Date(a.timestamp))
RECURSIVE SortByTimestamp(_)
SortByTimestamp(values) ==
    IF values = {} THEN <<>>
    ELSE LET newest == CHOOSE v \in values :
                           \A w \in values : w.timestamp <= v.timestamp
         IN <<newest>> \o SortByTimestamp(values \ {newest})

\* both users have signed up; nothing else is stored and no request has
\* arrived
ServerInit ==
    /\ kv = [k \in { ProfileKey(u) : u \in Users } |-> Profile(k[1])]
    /\ clock = 1
    /\ requests = <<>>
    /\ saved = [slot \in Users \X Categories |-> [written |-> 0, completed |-> 0]]

----------------------------------------------------------------------------
(* The profile specification: calculateDoshaProfile applied to every       *)
(* combination of the six table attributes, declared or not.               *)

AppInit ==
    /\ step = "auth"
    /\ accessToken = Null
    /\ healthParams = Null
    /\ lifestyleFactors = Null
    /\ doshaScores = Null
    /\ predictions = <<>>
    /\ lifestyleRisk = Null
    /\ loading = FALSE
    /\ handler = Null
    /\ session = "getSession"
    /\ logout = FALSE

ProfileSizes == {<<70, 170>>}

ProfileInputs ==
    HealthParameters(BodyTemperatures \cup {Undefined}, Digestions \cup {Undefined},
                     SleepPatterns \cup {Undefined}, EnergyLevels \cup {Undefined},
                     SkinTypes \cup {Undefined}, StressLevels \cup {Undefined},
                     ExerciseFrequencies, ProfileSizes)

InitProfile ==
    /\ params \in ProfileInputs
    /\ lifestyle = SomeLifestyle
    /\ scores = Null
    /\ diseases = Null
    /\ risk = Null
    /\ AppInit
    /\ ServerInit

\* const scores = calculateDoshaProfile(params)
CalcProfile ==
    /\ scores = Null
    /\ scores' = Some(calculateDoshaProfile(params))
    /\ UNCHANGED <<params, lifestyle, diseases, risk>>
    /\ UNCHANGED appVars
    /\ UNCHANGED serverVars

NextProfile == CalcProfile

SpecProfile == InitProfile /\ [][NextProfile]_vars

----------------------------------------------------------------------------
(* The prediction specification: calculateDoshaProfile and then            *)
(* predictDiseases, on every valid combination of the table attributes,    *)
(* every body size, and the lifestyle values on either side of each guard. *)

PredictInputs ==
    HealthParameters(BodyTemperatures, Digestions, SleepPatterns, EnergyLevels,
                     SkinTypes, StressLevels, {"rarely"}, BodySizes)

\* sleepHours 4.5, 5 and 6; screenTime 8 and 8.5
PredictLifestyles ==
    LifestyleFactors(MealTimings, {"low", "high"}, {9, 10, 12}, {"none", "yoga"},
                     {16, 17}, {"rarely", Undefined})

InitPredict ==
    /\ params \in PredictInputs
    /\ lifestyle \in PredictLifestyles
    /\ scores = Null
    /\ diseases = Null
    /\ risk = Null
    /\ AppInit
    /\ ServerInit

\* const diseasePredictions = predictDiseases(doshaScores, lifestyle, healthParams)
CalcPredictions ==
    /\ scores # Null
    /\ diseases = Null
    /\ diseases' = Some(predictDiseases(scores[1], lifestyle, params))
    /\ UNCHANGED <<params, lifestyle, scores, risk>>
    /\ UNCHANGED appVars
    /\ UNCHANGED serverVars

NextPredict == CalcProfile \/ CalcPredictions

SpecPredict == InitPredict /\ [][NextPredict]_vars

----------------------------------------------------------------------------
(* The lifestyle risk specification: calculateLifestyleRisk on every       *)
(* lifestyle up to MaxSleepHalf and MaxScreenHalf, with and without an     *)
(* exerciseFrequency property, under every declared stress level and       *)
(* exercise frequency of the health parameters.                            *)

RiskInputs ==
    HealthParameters({"cold"}, {"irregular"}, {"light"}, {"variable"}, {"dry"},
                     StressLevels, {"daily", "rarely"}, ProfileSizes)

RiskLifestyles ==
    LifestyleFactors(MealTimings, {"low", "high"}, 0..MaxSleepHalf, {"none", "yoga"},
                     0..MaxScreenHalf, ExerciseFrequencies \cup {Undefined})

InitRisk ==
    /\ params \in RiskInputs
    /\ lifestyle \in RiskLifestyles
    /\ scores = Null
    /\ diseases = Null
    /\ risk = Null
    /\ AppInit
    /\ ServerInit

\* const risk = calculateLifestyleRisk(lifestyle, healthParams)
CalcRisk ==
    /\ risk = Null
    /\ risk' = Some(calculateLifestyleRisk(lifestyle, params))
    /\ UNCHANGED <<params, lifestyle, scores, diseases>>
    /\ UNCHANGED appVars
    /\ UNCHANGED serverVars

NextRisk == CalcRisk

SpecRisk == InitRisk /\ [][NextRisk]_vars

(* Repeated calls: calculateLifestyleRisk called again and again with      *)
(* another lifestyle, so that two successive results can be compared.      *)

\* sleepHours 4, 5, 5.5 and 7; screenTime 8 and 10
CallLifestyles ==
    LifestyleFactors(MealTimings, {"low", "high"}, {8, 10, 11, 14}, {"none", "yoga"},
                     {16, 20}, ExerciseFrequencies \cup {Undefined})

InitCalls ==
    /\ params = SomeParams
    /\ lifestyle \in CallLifestyles
    /\ scores = Null
    /\ diseases = Null
    /\ risk = Null
    /\ AppInit
    /\ ServerInit

\* calculateLifestyleRisk(l, params) for a lifestyle l of the caller's choice
CallRisk ==
    \E l \in CallLifestyles :
        /\ lifestyle' = l
        /\ risk' = Some(calculateLifestyleRisk(l, params))
        /\ UNCHANGED <<params, scores, diseases>>
        /\ UNCHANGED appVars
        /\ UNCHANGED serverVars

NextCalls == CallRisk

SpecCalls == InitCalls /\ [][NextCalls]_vars

----------------------------------------------------------------------------
(* The two scorers on one input: calculateDoshaProfile, predictDiseases    *)
(* and calculateLifestyleRisk as handleLifestyleComplete calls them, on    *)
(* every stress level and stress management and screen times on either     *)
(* side of 8 hours.                                                        *)

ScorerInputs ==
    HealthParameters({"cold"}, {"irregular"}, {"light"}, {"variable"}, {"dry"},
                     StressLevels, {"rarely"}, ProfileSizes)

\* screenTime 0, 7.5, 8, 8.5, 12 and the greatest drawn
ScorerLifestyles ==
    LifestyleFactors({"regular"}, {"high"}, {10, 14}, StressManagements,
                     {0, 15, 16, 17, 24, MaxScreenHalf}, {Undefined})

InitScorers ==
    /\ params \in ScorerInputs
    /\ lifestyle \in ScorerLifestyles
    /\ scores = Null
    /\ diseases = Null
    /\ risk = Null
    /\ AppInit
    /\ ServerInit

NextScorers == CalcProfile \/ CalcPredictions \/ CalcRisk

SpecScorers == InitScorers /\ [][NextScorers]_vars

----------------------------------------------------------------------------
(* The App: the wizard auth -> dosha -> lifestyle -> dashboard.  A handler *)
(* runs up to its first await in one step and then one awaited request per *)
(* step.  While loading is true the App renders only the spinner, so the   *)
(* forms and buttons start nothing; checkSession and a pending signOut do  *)
(* not set loading and run beside whatever the user starts.  Of the        *)
(* handlers started from the forms one is pending at a time.  A request    *)
(* either resolves or throws; a save writes the 'latest' record of its     *)
(* category, and a GET that resolves returns that record or none.          *)

\* what the DoshaAssessment form hands to onComplete
FormParams ==
    HealthParameters({"cold"}, {"irregular", "slow"}, {"light"}, {"variable"},
                     {"dry"}, {"high"}, ExerciseFrequencies, ProfileSizes)

\* what the LifestyleAssessment form hands to onComplete: the seven fields
\* it has inputs for, exerciseFrequency not among them
FormLifestyles ==
    LifestyleFactors({"irregular"}, {"low"}, {10}, {"none"}, {20},
                     {Undefined})

\* the access token of the one account signed in from this browser
Tokens == {"token-u1"}

Running(name) == handler # Null /\ handler[1].name = name

Idle == handler = Null /\ ~loading

InitApp ==
    /\ params = SomeParams
    /\ lifestyle = SomeLifestyle
    /\ scores = Null
    /\ diseases = Null
    /\ risk = Null
    /\ AppInit
    /\ ServerInit

\* the server's POST handler of a category run for the token's user: the
\* body stored under the 'latest' key with the timestamp
SaveLatest(store, token, category, body) ==
    KvSet(store, LatestKey(UserOf(token), category), Stored(body, clock))

\* { ...lifestyle, timestamp } as the server stores and returns it: the
\* fields of the body and the timestamp beside them
Spread(record) ==
    [field \in DOMAIN record.body \cup {"timestamp"} |->
        IF field = "timestamp" THEN record.timestamp ELSE record.body[field]]

\* the server's GET handler of a category: the 'latest' record or none
LoadLatest(token, category) == KvGet(kv, LatestKey(UserOf(token), category))

\* checkSession: getSession found no session, or threw
checkSessionNone ==
    /\ session = "getSession"
    /\ session' = "done"
    /\ UNCHANGED <<step, accessToken, healthParams, lifestyleFactors, doshaScores,
                   predictions, lifestyleRisk, loading, handler, logout>>
    /\ UNCHANGED engineVars
    /\ UNCHANGED serverVars

\* checkSession: getSession found a session: setAccessToken, then the fetch
\* of /debug-token
checkSessionFound ==
    /\ session = "getSession"
    /\ \E token \in Tokens :
          /\ accessToken' = Some(token)
          /\ session' = "debug-token"
    /\ UNCHANGED <<step, healthParams, lifestyleFactors, doshaScores, predictions,
                   lifestyleRisk, loading, handler, logout>>
    /\ UNCHANGED engineVars
    /\ UNCHANGED serverVars

\* checkSession: /debug-token answered without success: setStep('auth'),
\* return
debugTokenRejected ==
    /\ session = "debug-token"
    /\ step' = "auth"
    /\ session' = "done"
    /\ UNCHANGED <<accessToken, healthParams, lifestyleFactors, doshaScores,
                   predictions, lifestyleRisk, loading, handler, logout>>
    /\ UNCHANGED engineVars
    /\ UNCHANGED serverVars

\* checkSession: /debug-token answered with success, or the fetch threw and
\* was logged: on to the request of /profile
debugTokenPassed ==
    /\ session = "debug-token"
    /\ session' = "profile"
    /\ UNCHANGED <<step, accessToken, healthParams, lifestyleFactors, doshaScores,
                   predictions, lifestyleRisk, loading, handler, logout>>
    /\ UNCHANGED engineVars
    /\ UNCHANGED serverVars

\* checkSession: the request of /profile threw: setStep('dosha')
profileFailed ==
    /\ session = "profile"
    /\ step' = "dosha"
    /\ session' = "done"
    /\ UNCHANGED <<accessToken, healthParams, lifestyleFactors, doshaScores,
                   predictions, lifestyleRisk, loading, handler, logout>>
    /\ UNCHANGED engineVars
    /\ UNCHANGED serverVars

\* checkSession: /profile resolved: loadExistingData up to its first await
profileLoaded ==
    /\ session = "profile"
    /\ loading' = TRUE
    /\ session' = "loadExistingData"
    /\ UNCHANGED <<step, accessToken, healthParams, lifestyleFactors, doshaScores,
                   predictions, lifestyleRisk, handler, logout>>
    /\ UNCHANGED engineVars
    /\ UNCHANGED serverVars

\* handleAuthSuccess: setAccessToken, then loadExistingData up to its first
\* await
handleAuthSuccess ==
    /\ step = "auth"
    /\ Idle
    /\ \E token \in Tokens :
          /\ accessToken' = Some(token)
          /\ handler' = Some([name |-> "loadExistingData", token |-> token])
    /\ loading' = TRUE
    /\ UNCHANGED <<step, healthParams, lifestyleFactors, doshaScores, predictions,
                   lifestyleRisk, session, logout>>
    /\ UNCHANGED engineVars
    /\ UNCHANGED serverVars

\* the runs of loadExistingData: the one handleAuthSuccess started and the
\* one checkSession awaits
Loaders == {"handleAuthSuccess", "checkSession"}

LoaderRuns(run) ==
    IF run = "handleAuthSuccess" THEN Running("loadExistingData")
    ELSE session = "loadExistingData"

LoaderToken(run) ==
    IF run = "handleAuthSuccess" THEN handler[1].token
    ELSE CHOOSE token \in Tokens : TRUE

LoaderEnds(run) ==
    IF run = "handleAuthSuccess" THEN handler' = Null /\ UNCHANGED session
    ELSE session' = "done" /\ UNCHANGED handler

\* loadExistingData: the four GETs resolved and all four records present
loadExistingDataFound ==
    \E run \in Loaders :
        /\ LoaderRuns(run)
        /\ LET doshaAssessment == LoadLatest(LoaderToken(run), "dosha")
               healthAssessment == LoadLatest(LoaderToken(run), "health")
               savedLifestyle == LoadLatest(LoaderToken(run), "lifestyle")
               savedPredictions == LoadLatest(LoaderToken(run), "predictions")
           IN /\ doshaAssessment # Null
              /\ healthAssessment # Null
              /\ savedLifestyle # Null
              /\ savedPredictions # Null
              /\ healthParams' = Some(healthAssessment[1].body.params)
              /\ lifestyleFactors' = Some(Spread(savedLifestyle[1]))
              /\ doshaScores' = Some(doshaAssessment[1].body.scores)
              /\ predictions' = savedPredictions[1].body.predictions
              /\ lifestyleRisk' = Some(savedPredictions[1].body.lifestyleRisk)
        /\ step' = "dashboard"
        /\ loading' = FALSE
        /\ LoaderEnds(run)
        /\ UNCHANGED <<accessToken, logout>>
        /\ UNCHANGED engineVars
        /\ UNCHANGED serverVars

\* loadExistingDataMissing showing the dashboard although a record is absent
loadExistingDataMissingMutant ==
    \E run \in Loaders :
        /\ LoaderRuns(run)
        /\ \E category \in Categories : LoadLatest(LoaderToken(run), category) = Null
        /\ step' = "dashboard"
        /\ loading' = FALSE
        /\ LoaderEnds(run)
        /\ UNCHANGED <<accessToken, healthParams, lifestyleFactors, doshaScores,
                       predictions, lifestyleRisk, logout>>
        /\ UNCHANGED engineVars
        /\ UNCHANGED serverVars

\* loadExistingData: the four GETs resolved and a record is absent
loadExistingDataMissing ==
    \E run \in Loaders :
        /\ LoaderRuns(run)
        /\ \E category \in Categories : LoadLatest(LoaderToken(run), category) = Null
        /\ step' = "dosha"
        /\ loading' = FALSE
        /\ LoaderEnds(run)
        /\ UNCHANGED <<accessToken, healthParams, lifestyleFactors, doshaScores,
                       predictions, lifestyleRisk, logout>>
        /\ UNCHANGED engineVars
        /\ UNCHANGED serverVars

\* loadExistingData: one of the four GETs threw
loadExistingDataFailed ==
    \E run \in Loaders :
        /\ LoaderRuns(run)
        /\ step' = "dosha"
        /\ loading' = FALSE
        /\ LoaderEnds(run)
        /\ UNCHANGED <<accessToken, healthParams, lifestyleFactors, doshaScores,
                       predictions, lifestyleRisk, logout>>
        /\ UNCHANGED engineVars
        /\ UNCHANGED serverVars

\* handleDoshaComplete up to its first await
handleDoshaComplete ==
    /\ step = "dosha"
    /\ Idle
    /\ \E p \in FormParams :
          IF accessToken = Null
          THEN UNCHANGED <<loading, healthParams, doshaScores, handler>>
          ELSE /\ loading' = TRUE
               /\ healthParams' = Some(p)
               /\ doshaScores' = Some(calculateDoshaProfile(p))
               /\ handler' = Some([name |-> "handleDoshaComplete",
                                   awaiting |-> "/dosha-assessment",
                                   token |-> accessToken[1],
                                   params |-> p,
                                   scores |-> calculateDoshaProfile(p)])
    /\ UNCHANGED <<step, accessToken, lifestyleFactors, predictions, lifestyleRisk,
                   session, logout>>
    /\ UNCHANGED engineVars
    /\ UNCHANGED serverVars

\* the body of the POST handleDoshaComplete awaits
DoshaBody(run) ==
    IF run.awaiting = "/dosha-assessment"
    THEN [scores |-> run.scores, params |-> run.params]
    ELSE [params |-> run.params]

DoshaCategory(run) ==
    IF run.awaiting = "/dosha-assessment" THEN "dosha" ELSE "health"

\* the POST to /dosha-assessment resolved
doshaAssessmentSaved ==
    /\ Running("handleDoshaComplete")
    /\ handler[1].awaiting = "/dosha-assessment"
    /\ kv' = SaveLatest(kv, handler[1].token, "dosha", DoshaBody(handler[1]))
    /\ handler' = Some([handler[1] EXCEPT !.awaiting = "/health-assessment"])
    /\ UNCHANGED <<step, accessToken, healthParams, lifestyleFactors, doshaScores,
                   predictions, lifestyleRisk, loading, session, logout>>
    /\ UNCHANGED engineVars
    /\ UNCHANGED <<clock, requests, saved>>

\* the POST to /health-assessment resolved: setStep('lifestyle'), finally
healthAssessmentSaved ==
    /\ Running("handleDoshaComplete")
    /\ handler[1].awaiting = "/health-assessment"
    /\ kv' = SaveLatest(kv, handler[1].token, "health", DoshaBody(handler[1]))
    /\ step' = "lifestyle"
    /\ loading' = FALSE
    /\ handler' = Null
    /\ UNCHANGED <<accessToken, healthParams, lifestyleFactors, doshaScores,
                   predictions, lifestyleRisk, session, logout>>
    /\ UNCHANGED engineVars
    /\ UNCHANGED <<clock, requests, saved>>

\* doshaSaveFailed without the finally block: loading stays true
doshaSaveFailedMutant ==
    /\ Running("handleDoshaComplete")
    /\ kv' \in { kv, SaveLatest(kv, handler[1].token, DoshaCategory(handler[1]),
                                DoshaBody(handler[1])) }
    /\ step' = "lifestyle"
    /\ handler' = Null
    /\ UNCHANGED <<accessToken, healthParams, lifestyleFactors, doshaScores,
                   predictions, lifestyleRisk, loading, session, logout>>
    /\ UNCHANGED engineVars
    /\ UNCHANGED <<clock, requests, saved>>

\* either POST threw, before the server wrote the 'latest' record or after
\* it (the history write failed): catch, setStep('lifestyle'), finally
doshaSaveFailed ==
    /\ Running("handleDoshaComplete")
    /\ kv' \in { kv, SaveLatest(kv, handler[1].token, DoshaCategory(handler[1]),
                                DoshaBody(handler[1])) }
    /\ step' = "lifestyle"
    /\ loading' = FALSE
    /\ handler' = Null
    /\ UNCHANGED <<accessToken, healthParams, lifestyleFactors, doshaScores,
                   predictions, lifestyleRisk, session, logout>>
    /\ UNCHANGED engineVars
    /\ UNCHANGED <<clock, requests, saved>>

\* handleLifestyleComplete up to its first await
handleLifestyleComplete ==
    /\ step = "lifestyle"
    /\ Idle
    /\ \E l \in FormLifestyles :
          IF accessToken = Null
          THEN UNCHANGED <<loading, lifestyleFactors, predictions, lifestyleRisk, handler>>
          ELSE IF healthParams = Null \/ doshaScores = Null
          THEN /\ lifestyleFactors' = Some(l)
               /\ loading' = FALSE
               /\ UNCHANGED <<predictions, lifestyleRisk, handler>>
          ELSE /\ loading' = TRUE
               /\ lifestyleFactors' = Some(l)
               /\ predictions' = predictDiseases(doshaScores[1], l, healthParams[1])
               /\ lifestyleRisk' = Some(calculateLifestyleRisk(l, healthParams[1]))
               /\ handler' = Some([name |-> "handleLifestyleComplete",
                                   awaiting |-> "/lifestyle",
                                   token |-> accessToken[1],
                                   lifestyle |-> l,
                                   predictions |->
                                       predictDiseases(doshaScores[1], l, healthParams[1]),
                                   risk |-> calculateLifestyleRisk(l, healthParams[1])])
    /\ UNCHANGED <<step, accessToken, healthParams, doshaScores, session, logout>>
    /\ UNCHANGED engineVars
    /\ UNCHANGED serverVars

\* the body of the POST handleLifestyleComplete awaits
LifestyleBody(run) ==
    IF run.awaiting = "/lifestyle" THEN run.lifestyle
    ELSE [predictions |-> run.predictions, lifestyleRisk |-> run.risk]

LifestyleCategory(run) ==
    IF run.awaiting = "/lifestyle" THEN "lifestyle" ELSE "predictions"

\* the POST to /lifestyle resolved
lifestyleSaved ==
    /\ Running("handleLifestyleComplete")
    /\ handler[1].awaiting = "/lifestyle"
    /\ kv' = SaveLatest(kv, handler[1].token, "lifestyle", LifestyleBody(handler[1]))
    /\ handler' = Some([handler[1] EXCEPT !.awaiting = "/predictions"])
    /\ UNCHANGED <<step, accessToken, healthParams, lifestyleFactors, doshaScores,
                   predictions, lifestyleRisk, loading, session, logout>>
    /\ UNCHANGED engineVars
    /\ UNCHANGED <<clock, requests, saved>>

\* the POST to /predictions resolved: setStep('dashboard'), finally
predictionsSaved ==
    /\ Running("handleLifestyleComplete")
    /\ handler[1].awaiting = "/predictions"
    /\ kv' = SaveLatest(kv, handler[1].token, "predictions", LifestyleBody(handler[1]))
    /\ step' = "dashboard"
    /\ loading' = FALSE
    /\ handler' = Null
    /\ UNCHANGED <<accessToken, healthParams, lifestyleFactors, doshaScores,
                   predictions, lifestyleRisk, session, logout>>
    /\ UNCHANGED engineVars
    /\ UNCHANGED <<clock, requests, saved>>

\* either POST threw, before the server wrote the 'latest' record or after
\* it (the history write of /predictions failed): catch,
\* setStep('dashboard'), finally
lifestyleSaveFailed ==
    /\ Running("handleLifestyleComplete")
    /\ kv' \in { kv } \cup
               IF handler[1].awaiting = "/predictions"
               THEN { SaveLatest(kv, handler[1].token, "predictions",
                                 LifestyleBody(handler[1])) }
               ELSE {}
    /\ step' = "dashboard"
    /\ loading' = FALSE
    /\ handler' = Null
    /\ UNCHANGED <<accessToken, healthParams, lifestyleFactors, doshaScores,
                   predictions, lifestyleRisk, session, logout>>
    /\ UNCHANGED engineVars
    /\ UNCHANGED <<clock, requests, saved>>

\* retakeAssessment, offered on the dashboard
retakeAssessment ==
    /\ step = "dashboard"
    /\ ~loading
    /\ healthParams' = Null
    /\ lifestyleFactors' = Null
    /\ doshaScores' = Null
    /\ predictions' = <<>>
    /\ lifestyleRisk' = Null
    /\ step' = "dosha"
    /\ UNCHANGED <<accessToken, loading, handler, session, logout>>
    /\ UNCHANGED engineVars
    /\ UNCHANGED serverVars

\* handleLogout up to its await of signOut
handleLogout ==
    /\ step # "auth"
    /\ ~loading
    /\ ~logout
    /\ logout' = TRUE
    /\ UNCHANGED <<step, accessToken, healthParams, lifestyleFactors, doshaScores,
                   predictions, lifestyleRisk, loading, handler, session>>
    /\ UNCHANGED engineVars
    /\ UNCHANGED serverVars

\* handleLogout: signOut resolved
signedOut ==
    /\ logout
    /\ accessToken' = Null
    /\ healthParams' = Null
    /\ lifestyleFactors' = Null
    /\ doshaScores' = Null
    /\ predictions' = <<>>
    /\ lifestyleRisk' = Null
    /\ step' = "auth"
    /\ logout' = FALSE
    /\ UNCHANGED <<loading, handler, session>>
    /\ UNCHANGED engineVars
    /\ UNCHANGED serverVars

\* handleLogout: signOut threw
signOutFailed ==
    /\ logout
    /\ logout' = FALSE
    /\ UNCHANGED <<step, accessToken, healthParams, lifestyleFactors, doshaScores,
                   predictions, lifestyleRisk, loading, handler, session>>
    /\ UNCHANGED engineVars
    /\ UNCHANGED serverVars

NextApp ==
    \/ checkSessionNone
    \/ checkSessionFound
    \/ debugTokenRejected
    \/ debugTokenPassed
    \/ profileFailed
    \/ profileLoaded
    \/ handleAuthSuccess
    \/ loadExistingDataFound
    \/ loadExistingDataMissing
    \/ loadExistingDataFailed
    \/ handleDoshaComplete
    \/ doshaAssessmentSaved
    \/ healthAssessmentSaved
    \/ doshaSaveFailed
    \/ handleLifestyleComplete
    \/ lifestyleSaved
    \/ predictionsSaved
    \/ lifestyleSaveFailed
    \/ retakeAssessment
    \/ handleLogout
    \/ signedOut
    \/ signOutFailed

SpecApp == InitApp /\ [][NextApp]_vars

\* a run of loadExistingData comes to its end
LoaderSettles(run) ==
    /\ loadExistingDataFound \/ loadExistingDataMissing \/ loadExistingDataFailed
    /\ IF run = "handleAuthSuccess" THEN handler' = Null ELSE session' = "done"

\* every awaited request of loadExistingData and of the completion handlers
\* settles: it resolves or it throws
RequestsSettle ==
    /\ \A run \in Loaders : WF_vars(LoaderRuns(run) /\ LoaderSettles(run))
    /\ WF_vars(doshaAssessmentSaved \/ healthAssessmentSaved \/ doshaSaveFailed)
    /\ WF_vars(lifestyleSaved \/ predictionsSaved \/ lifestyleSaveFailed)

SpecAppFair == SpecApp /\ RequestsSettle

----------------------------------------------------------------------------
(* The server's requests.  A handler runs from one await to the next in    *)
(* one step, and handlers of different requests interleave at their        *)
(* awaits.  For each user and category, saved remembers which request      *)
(* wrote the 'latest' record last and which POST was answered with success *)
(* last; a GET notes both as it reads.                                     *)

MaxRequests == 3
MaxClock == 2

Call(method, endpoint, type) == [method |-> method, endpoint |-> endpoint, type |-> type]

\* a request as it arrives; alone tells that every earlier request had been
\* answered by then, and posted will hold, for a GET of a history, the POSTs
\* to it that had been answered with success when it read
NewRequest(call, token, body) ==
    [method |-> call.method, endpoint |-> call.endpoint, type |-> call.type,
     token |-> token, body |-> body, pc |-> "verify", user |-> Null,
     timestamp |-> 0, status |-> 0, result |-> Null, written |-> 0, completed |-> 0,
     posted |-> {},
     alone |-> \A j \in DOMAIN requests : requests[j].pc = "done"]

\* return c.json(result, status)
Answered(req, status, result) ==
    [req EXCEPT !.pc = "done", !.status = status, !.result = result]

At(i, pc) == i \in DOMAIN requests /\ requests[i].pc = pc

\* A request arrives and its handler runs through
\*   const user = await verifyUser(accessToken);
\*   if (!user) return c.json({ error: "Unauthorized" }, 401)
\* which reads nothing other handlers write.  The body of a POST is told
\* apart from every other by the number of the request.
Authenticate(arrivals) ==
    /\ Len(requests) < MaxRequests
    /\ \E arrival \in arrivals :
          LET call == arrival[1]
              token == arrival[2]
              req == NewRequest(call, token,
                                IF call.method = "POST" THEN Len(requests) + 1 ELSE 0)
              user == verifyUser(token)
          IN requests' = Append(requests,
                 IF user = Null THEN Answered(req, 401, Null)
                 ELSE [req EXCEPT !.user = user,
                                  !.pc = IF req.method = "POST" THEN "body" ELSE "read"])
    /\ UNCHANGED <<kv, clock, saved>>
    /\ UNCHANGED engineVars
    /\ UNCHANGED appVars

\* const assessment = await c.req.json();
\* const timestamp = new Date().toISOString()
TakeTimestamp(i) ==
    /\ At(i, "body")
    /\ requests[i].endpoint \in Categories
    /\ requests' = [requests EXCEPT ![i].timestamp = clock, ![i].pc = "latest"]
    /\ UNCHANGED <<kv, clock, saved>>
    /\ UNCHANGED engineVars
    /\ UNCHANGED appVars

\* await kv.set(`user:${user.id}:dosha:latest`, { ...assessment, timestamp })
\* and, in POST /lifestyle, the answer that follows it
SetLatest(i) ==
    /\ At(i, "latest")
    /\ LET req == requests[i]
           slot == <<req.user[1], req.endpoint>>
           last == req.endpoint \notin HistoryCategories
       IN /\ kv' = KvSet(kv, LatestKey(req.user[1], req.endpoint),
                         Stored(req.body, req.timestamp))
          /\ requests' = [requests EXCEPT ![i] =
                 IF last THEN Answered(req, 200, Null) ELSE [req EXCEPT !.pc = "history"]]
          /\ saved' = [saved EXCEPT ![slot].written = i,
                                    ![slot].completed = IF last THEN i ELSE @]
    /\ UNCHANGED clock
    /\ UNCHANGED engineVars
    /\ UNCHANGED appVars

\* await kv.set(historyKey, { ...assessment, timestamp });
\* return c.json({ success: true, assessment, timestamp })
SetHistory(i) ==
    /\ At(i, "history")
    /\ LET req == requests[i]
       IN /\ kv' = KvSet(kv, HistoryKey(req.user[1], req.endpoint, req.timestamp),
                         Stored(req.body, req.timestamp))
          /\ requests' = [requests EXCEPT ![i] = Answered(req, 200, Null)]
          /\ saved' = [saved EXCEPT ![<<req.user[1], req.endpoint>>].completed = i]
    /\ UNCHANGED clock
    /\ UNCHANGED engineVars
    /\ UNCHANGED appVars

\* const assessment = await kv.get(`user:${user.id}:dosha:latest`);
\* return c.json({ assessment })
GetLatest(i) ==
    /\ At(i, "read")
    /\ requests[i].endpoint \in Categories
    /\ LET req == requests[i]
           slot == <<req.user[1], req.endpoint>>
       IN requests' = [requests EXCEPT ![i] =
              [Answered(req, 200, KvGet(kv, LatestKey(req.user[1], req.endpoint)))
                  EXCEPT !.written = saved[slot].written,
                         !.completed = saved[slot].completed]]
    /\ UNCHANGED <<kv, clock, saved>>
    /\ UNCHANGED engineVars
    /\ UNCHANGED appVars

\* the POSTs of the user to the category that have been answered with success
SuccessfulPosts(user, category) ==
    { j \in DOMAIN requests :
        /\ requests[j].method = "POST"
        /\ requests[j].endpoint = category
        /\ requests[j].user = Some(user)
        /\ requests[j].status = 200 }

\* const prefix = `user:${user.id}:${type}:history:`;
\* const history = await kv.getByPrefix(prefix);
\* return c.json({ history: sortedHistory })
GetHistory(i) ==
    /\ At(i, "read")
    /\ requests[i].endpoint = "history"
    /\ LET req == requests[i]
           history == KvGetByPrefix(kv, req.user[1], req.type)
       IN requests' = [requests EXCEPT ![i] =
              [Answered(req, 200, Some(SortByTimestamp(history)))
                  EXCEPT !.posted = SuccessfulPosts(req.user[1], req.type)]]
    /\ UNCHANGED <<kv, clock, saved>>
    /\ UNCHANGED engineVars
    /\ UNCHANGED appVars

\* a kv.set or kv.get rejects: the catch block answers 500
StoreFails(i) ==
    /\ At(i, "latest") \/ At(i, "history") \/ At(i, "read")
    /\ requests' = [requests EXCEPT ![i] = Answered(requests[i], 500, Null)]
    /\ UNCHANGED <<kv, clock, saved>>
    /\ UNCHANGED engineVars
    /\ UNCHANGED appVars

\* a millisecond passes.  Time is read by new Date() only, so the steps are
\* taken where a handler is about to read it.
Tick ==
    /\ clock < MaxClock
    /\ \E i \in DOMAIN requests : At(i, "body")
    /\ clock' = clock + 1
    /\ UNCHANGED <<kv, requests, saved>>
    /\ UNCHANGED engineVars
    /\ UNCHANGED appVars

----------------------------------------------------------------------------
(* The store specification: one user's saves and reads of a category with  *)
(* a history (dosha) and of the one without (lifestyle), overlapping in    *)
(* every way, with store operations that may fail.                         *)

StoreCalls ==
    { Call("POST", "dosha", ""), Call("GET", "dosha", ""),
      Call("POST", "lifestyle", ""), Call("GET", "lifestyle", "") }

StoreTokens == {"token-u1"}

InitStore ==
    /\ params = SomeParams
    /\ lifestyle = SomeLifestyle
    /\ scores = Null
    /\ diseases = Null
    /\ risk = Null
    /\ AppInit
    /\ ServerInit

NextStore ==
    \/ Authenticate(StoreCalls \X StoreTokens)
    \/ \E i \in 1..MaxRequests :
          \/ TakeTimestamp(i)
          \/ SetLatest(i)
          \/ SetHistory(i)
          \/ GetLatest(i)
          \/ StoreFails(i)
    \/ Tick

SpecStore == InitStore /\ [][NextStore]_vars

----------------------------------------------------------------------------
(* The authentication specification: every data endpoint called without a  *)
(* token and with a token getUser rejects, next to saves of a user who is  *)
(* signed in.  What the handlers do for a verified user beyond saving is   *)
(* not part of it.                                                         *)

\* the data endpoints: GET /profile, POST and GET /dosha-assessment,
\* /health-assessment, /predictions and /lifestyle, GET /history/:type and
\* POST /nearby-doctors
DataCalls ==
    { Call("GET", "profile", "") }
    \cup { Call(method, category, "") : method \in {"POST", "GET"}, category \in Categories }
    \cup { Call("GET", "history", "dosha") }
    \cup { Call("POST", "nearby-doctors", "") }

\* no Authorization header, and a token supabase.auth.getUser rejects
UnverifiableTokens == {Undefined, "forged-u1"}

AuthArrivals ==
    (DataCalls \X UnverifiableTokens)
    \cup ({ Call("POST", "dosha", "") } \X {"token-u1"})

InitAuth ==
    /\ params = SomeParams
    /\ lifestyle = SomeLifestyle
    /\ scores = Null
    /\ diseases = Null
    /\ risk = Null
    /\ AppInit
    /\ ServerInit

NextAuth ==
    \/ Authenticate(AuthArrivals)
    \/ \E i \in 1..MaxRequests :
          \/ TakeTimestamp(i)
          \/ SetLatest(i)
          \/ SetHistory(i)
          \/ StoreFails(i)
    \/ Tick

SpecAuth == InitAuth /\ [][NextAuth]_vars

----------------------------------------------------------------------------
(* The users specification: two signed-in users save dosha assessments,    *)
(* and one of them reads its latest assessment and its history, in every   *)
(* interleaving and with store operations that may fail.                   *)

UsersArrivals ==
    ({ Call("POST", "dosha", "") } \X IssuedTokens)
    \cup ({ Call("GET", "dosha", ""), Call("GET", "history", "dosha") } \X {"token-u2"})

InitUsers ==
    /\ params = SomeParams
    /\ lifestyle = SomeLifestyle
    /\ scores = Null
    /\ diseases = Null
    /\ risk = Null
    /\ AppInit
    /\ ServerInit

NextUsers ==
    \/ Authenticate(UsersArrivals)
    \/ \E i \in 1..MaxRequests :
          \/ TakeTimestamp(i)
          \/ SetLatest(i)
          \/ SetHistory(i)
          \/ GetLatest(i)
          \/ GetHistory(i)
          \/ StoreFails(i)
    \/ Tick

SpecUsers == InitUsers /\ [][NextUsers]_vars

----------------------------------------------------------------------------
(* Properties of calculateDoshaProfile, checked under SpecProfile.         *)

\* C1: for every valid HealthParameters, calculateDoshaProfile returns
\* vata, pitta and kapha that are non-negative integers summing to
\* exactly 100.
C1_SumIsExactly100 ==
    (scores # Null /\ ValidParams(params)) =>
        /\ ~scores[1].nan
        /\ scores[1].vata \in Nat /\ scores[1].pitta \in Nat /\ scores[1].kapha \in Nat
        /\ scores[1].vata + scores[1].pitta + scores[1].kapha = 100

\* The weight table of the specification: attribute -> value -> the
\* accumulator that gains and the points it gains.
WeightTable ==
    [bodyTemperature |-> [cold |-> <<"A", 2>>, neutral |-> <<"C", 1>>, warm |-> <<"B", 2>>],
     digestion |-> [irregular |-> <<"A", 3>>, strong |-> <<"B", 3>>, slow |-> <<"C", 3>>],
     sleepPattern |-> [light |-> <<"A", 2>>, moderate |-> <<"B", 2>>, deep |-> <<"C", 2>>],
     energyLevel |-> [variable |-> <<"A", 2>>, high |-> <<"B", 2>>, steady |-> <<"C", 2>>],
     skinType |-> [dry |-> <<"A", 2>>, oily |-> <<"B", 2>>, normal |-> <<"C", 1>>],
     stressLevel |-> [high |-> <<"A", 2>>, moderate |-> <<"B", 1>>, low |-> <<"C", 1>>]]

TableAttributes ==
    <<"bodyTemperature", "digestion", "sleepPattern", "energyLevel",
      "skinType", "stressLevel">>

\* the points the table gives accumulator acc over the first n attributes
RECURSIVE TablePoints(_, _, _)
TablePoints(p, acc, n) ==
    IF n = 0 THEN 0
    ELSE LET entry == WeightTable[TableAttributes[n]][p[TableAttributes[n]]]
         IN TablePoints(p, acc, n - 1) + (IF entry[1] = acc THEN entry[2] ELSE 0)

\* round(n / d * 100), a half rounded away from zero
RoundHalfAway(n, d) ==
    LET q == (100 * n) \div d
        r == (100 * n) % d
    IN IF 2 * r >= d THEN q + 1 ELSE q

ReferenceProfile(p) ==
    LET A == TablePoints(p, "A", 6)
        B == TablePoints(p, "B", 6)
        C == TablePoints(p, "C", 6)
    IN [vata |-> RoundHalfAway(A, A + B + C),
        pitta |-> RoundHalfAway(B, A + B + C),
        kapha |-> RoundHalfAway(C, A + B + C),
        nan |-> FALSE]

\* C2: for every valid input the returned profile is the one the weight
\* table and round(acc / (A+B+C) * 100) give.
C2_MatchesWeightTable ==
    (scores # Null /\ ValidParams(params)) => scores[1] = ReferenceProfile(params)

\* a valid input on which all three accumulators gained points
C2_Witness ==
    /\ scores # Null
    /\ ValidParams(params)
    /\ VataPoints(params) > 0 /\ PittaPoints(params) > 0 /\ KaphaPoints(params) > 0
    /\ params.digestion = "irregular"

\* the end-to-end example of the specification
ExampleParams ==
    [age |-> 30, weight |-> 70, height |-> 170, bodyTemperature |-> "cold",
     digestion |-> "irregular", sleepPattern |-> "light",
     energyLevel |-> "variable", skinType |-> "dry", stressLevel |-> "high",
     exerciseFrequency |-> "rarely"]

\* C3 as stated: on the example the accumulators are A = 13 of a total of
\* 14, vata is 93 and the three outputs sum to 100.
C3_ExampleAsStated ==
    (scores # Null /\ params = ExampleParams) =>
        /\ VataPoints(params) = 13
        /\ TotalPoints(params) = 14
        /\ scores[1].vata = 93
        /\ scores[1].vata + scores[1].pitta + scores[1].kapha = 100

\* C3: on the example the accumulators are A = 13 of a total of 13 (cold
\* adds nothing to kapha), and the profile is vata 100, pitta 0, kapha 0,
\* which sums to 100.
C3_Example ==
    (scores # Null /\ params = ExampleParams) =>
        /\ VataPoints(params) = 13
        /\ TotalPoints(params) = 13
        /\ scores[1] = [vata |-> 100, pitta |-> 0, kapha |-> 0, nan |-> FALSE]

C3_Witness == scores # Null /\ params = ExampleParams

\* C6: an input with an attribute outside its declared set is rejected:
\* calculateDoshaProfile returns a result for valid input only.
C6_RejectsInvalidInput == scores # Null => ValidParams(params)

----------------------------------------------------------------------------
(* Properties of predictDiseases, checked under SpecPredict.               *)

\* the position of the finding named name in the returned list, 0 if absent
PositionOf(list, name) ==
    IF \E i \in 1..Len(list) : list[i].disease = name
    THEN CHOOSE i \in 1..Len(list) : list[i].disease = name
    ELSE 0

\* the doubles are equal
SameProbability(a, b) == a.pm = b.pm /\ a.ulp = b.ulp

\* the rule number (1..10, source order) that produces the finding
RuleOrder ==
    <<"Anxiety & Sleep Disorders", "Digestive Irregularity (Vishamagni)",
      "Hyperacidity & Inflammatory Conditions", "Skin Inflammation & Rashes",
      "Metabolic Syndrome Risk", "Sluggish Digestion & Water Retention",
      "Digital Eye Strain & Mental Fatigue", "Sleep Deprivation Syndrome",
      "Chronic Stress & Burnout Risk", "Constitutional Weakness">>

RuleOf(name) == CHOOSE r \in 1..Len(RuleOrder) : RuleOrder[r] = name

\* C4: every finding of predictDiseases(calculateDoshaProfile(attrs),
\* lifestyle, attrs) has a probability within [0, 1].
C4_ProbabilityInUnitInterval ==
    diseases # Null =>
        \A i \in 1..Len(diseases[1]) :
            LET pr == diseases[1][i].probability
                one == 1000 * params.height * params.height
            IN /\ pr.pm >= 0
               /\ pr.pm <= one
               /\ (pr.pm = one => pr.ulp <= 0)

\* the list is ordered by non-increasing probability, and findings of equal
\* probability stand in rule order
OrderedStably(list) ==
    \A i, j \in 1..Len(list) :
        i < j =>
            /\ ~ProbLess(list[i].probability, list[j].probability)
            /\ SameProbability(list[i].probability, list[j].probability)
                   => RuleOf(list[i].disease) < RuleOf(list[j].disease)

\* name1 stands before name2 whenever both are in the list
Precedes(list, name1, name2) ==
    (PositionOf(list, name1) > 0 /\ PositionOf(list, name2) > 0)
        => PositionOf(list, name1) < PositionOf(list, name2)

\* C5 as stated: the list is ordered by non-increasing probability with
\* ties in rule order; at vata = 50 'Digestive Irregularity' precedes 'Sleep
\* Deprivation Syndrome', and at kapha = 45 'Sluggish Digestion & Water
\* Retention' precedes 'Chronic Stress & Burnout Risk'.
C5_OrderAsStated ==
    diseases # Null =>
        /\ OrderedStably(diseases[1])
        /\ scores[1].vata = 50 =>
               Precedes(diseases[1], "Digestive Irregularity (Vishamagni)",
                        "Sleep Deprivation Syndrome")
        /\ scores[1].kapha = 45 =>
               Precedes(diseases[1], "Sluggish Digestion & Water Retention",
                        "Chronic Stress & Burnout Risk")

\* C5: the list is ordered by non-increasing computed probability, findings
\* whose computed probabilities are equal stand in rule order, and at vata
\* = 50 'Digestive Irregularity' (0.75) precedes 'Sleep Deprivation
\* Syndrome' (0.75); at kapha = 45 'Sluggish Digestion & Water Retention'
\* is computed as 0.6799999999999999 and follows 'Chronic Stress & Burnout
\* Risk' (0.68).
C5_Order ==
    diseases # Null =>
        /\ OrderedStably(diseases[1])
        /\ scores[1].vata = 50 =>
               Precedes(diseases[1], "Digestive Irregularity (Vishamagni)",
                        "Sleep Deprivation Syndrome")
        /\ scores[1].kapha = 45 =>
               Precedes(diseases[1], "Chronic Stress & Burnout Risk",
                        "Sluggish Digestion & Water Retention")

\* a tie at 0.75 kept in rule order
C5_Witness ==
    /\ diseases # Null
    /\ scores[1].vata = 50
    /\ PositionOf(diseases[1], "Digestive Irregularity (Vishamagni)") > 0
    /\ PositionOf(diseases[1], "Sleep Deprivation Syndrome")
           = PositionOf(diseases[1], "Digestive Irregularity (Vishamagni)") + 1

----------------------------------------------------------------------------
(* Properties of calculateLifestyleRisk, checked under SpecRisk and        *)
(* SpecCalls.                                                              *)

\* the lifestyle of the specification's example: sleepHours 5, exercise
\* rarely, stressManagement none, screenTime 10, water low, meals irregular
ExampleLifestyle ==
    [diet |-> "vegetarian", mealTiming |-> "irregular", waterIntake |-> "low",
     sleepHours |-> 10, exerciseMinutes |-> 30, stressManagement |-> "none",
     screenTime |-> 20, exerciseFrequency |-> "rarely"]

\* C7: with sleepHours >= 0 and screenTime >= 0 overallRisk is within
\* [0, 100]; the example, whose terms 20, 30, 25, 6, 15, 20 sum to 116,
\* returns 100.
C7_OverallRiskClamped ==
    risk # Null =>
        /\ risk[1].overallRisk >= 0
        /\ risk[1].overallRisk <= Points(100)
        /\ (lifestyle = ExampleLifestyle /\ params.stressLevel = "high") =>
              /\ SleepRisk(lifestyle) + ExerciseRisk(lifestyle) + StressRisk(lifestyle, params)
                   + ScreenRisk(lifestyle) + WaterRisk(lifestyle) + MealRisk(lifestyle)
                   = Points(116)
              /\ risk[1].overallRisk = Points(100)

C7_Witness ==
    /\ risk # Null
    /\ lifestyle = ExampleLifestyle
    /\ params.stressLevel = "high"
    /\ TotalRisk(lifestyle, params) > Points(100)

\* The six terms of the specification.  The exercise frequency is the one
\* the user's valid input carries, HealthParameters.exerciseFrequency.
ReferenceTerms(l, p) ==
    <<Max(0, (14 - l.sleepHours) * 10),
      CASE p.exerciseFrequency = "daily" -> 0
        [] p.exerciseFrequency = "weekly" -> Points(15)
        [] p.exerciseFrequency = "rarely" -> Points(30),
      IF l.stressManagement = "none"
      THEN (IF p.stressLevel = "high" THEN Points(25) ELSE Points(15))
      ELSE 0,
      Min(Points(30), Max(0, (l.screenTime - 16) * 3)),
      IF l.waterIntake = "low" THEN Points(15) ELSE 0,
      IF l.mealTiming = "irregular" THEN Points(20) ELSE 0>>

RECURSIVE SumSeq(_)
SumSeq(s) == IF s = <<>> THEN 0 ELSE s[1] + SumSeq(Tail(s))

\* C8: for every valid input overallRisk equals min(100, S), S the sum of
\* the six terms (sleep, inactivity by exercise frequency, stress gap,
\* screen, hydration, meal).
C8_OverallRiskIsClampedSum ==
    (risk # Null /\ ValidLifestyle(lifestyle) /\ ValidParams(params)) =>
        risk[1].overallRisk = Min(Points(100), SumSeq(ReferenceTerms(lifestyle, params)))

FactorsOf(r) == { r.riskFactors[i] : i \in 1..Len(r.riskFactors) }

\* C10 as stated: two results that both list a factor of the same name give
\* it the same impact string.
C10_ImpactFixedByName ==
    [][(risk # Null /\ risk' # Null) =>
          \A f \in FactorsOf(risk[1]), g \in FactorsOf(risk'[1]) :
              f.factor = g.factor => f.impact = g.impact]_vars

\* C10: two results that both list a factor of the same name give it the
\* same impact string when its scores lie on the same side of 20 points;
\* 'Inadequate Sleep' and 'Low Physical Activity' read 'High impact ...'
\* above 20 points and 'Moderate impact' otherwise, and the impact strings
\* of the other four factors do not depend on the score at all.
C10_ImpactFixedByNameAndTier ==
    [][(risk # Null /\ risk' # Null) =>
          \A f \in FactorsOf(risk[1]), g \in FactorsOf(risk'[1]) :
              f.factor = g.factor =>
                  /\ (f.score > Points(20) <=> g.score > Points(20)) => f.impact = g.impact
                  /\ f.factor \notin {"Inadequate Sleep", "Low Physical Activity"}
                         => f.impact = g.impact]_vars

\* a result that lists 'Inadequate Sleep' with a score above 20 points:
\* reached by a call that follows one listing it with a score of 20 or
\* less, and followed by such calls
C10_Witness ==
    /\ risk # Null
    /\ \E f \in FactorsOf(risk[1]) :
           f.factor = "Inadequate Sleep" /\ f.score > Points(20)
                /\ f.impact = "High impact on health"

----------------------------------------------------------------------------
(* Properties of the App flow, checked under SpecApp.                      *)

\* handleLifestyleComplete has computed its report from the health
\* parameters handleDoshaComplete stored, and is saving or has just shown it
LifestyleReportShown ==
    /\ Running("handleLifestyleComplete")
    /\ healthParams # Null
    /\ lifestyleRisk # Null

\* the score of the 'Low Physical Activity' factor of a report, 0 if the
\* report does not list it
ActivityScore(r) ==
    IF \E f \in FactorsOf(r) : f.factor = "Low Physical Activity"
    THEN (CHOOSE f \in FactorsOf(r) : f.factor = "Low Physical Activity").score
    ELSE 0

\* C9: in the app flow the exercise frequency the user selected determines
\* the inactivity term: 'daily' gives no 'Low Physical Activity' factor,
\* 'weekly' gives it with score 15 and 'rarely' with score 30.
C9_SelectedFrequencyDecidesInactivity ==
    LifestyleReportShown =>
        ActivityScore(lifestyleRisk[1]) =
            CASE healthParams[1].exerciseFrequency = "daily" -> 0
              [] healthParams[1].exerciseFrequency = "weekly" -> Points(15)
              [] healthParams[1].exerciseFrequency = "rarely" -> Points(30)

----------------------------------------------------------------------------
(* Properties of the riskFactors list, checked under SpecRisk.             *)

\* the six factors in the order calculateLifestyleRisk evaluates them
EvaluationOrder ==
    <<"Inadequate Sleep", "Low Physical Activity", "Poor Stress Management",
      "Excessive Screen Time", "Low Water Intake", "Irregular Meal Times">>

\* the term behind a factor name
TermOf(name, l, p) ==
    CASE name = "Inadequate Sleep" -> SleepRisk(l)
      [] name = "Low Physical Activity" -> ExerciseRisk(l)
      [] name = "Poor Stress Management" -> StressRisk(l, p)
      [] name = "Excessive Screen Time" -> ScreenRisk(l)
      [] name = "Low Water Intake" -> WaterRisk(l)
      [] name = "Irregular Meal Times" -> MealRisk(l)

\* the positions of the list that carry the factor name
ListedAt(list, name) == { i \in 1..Len(list) : list[i].factor = name }

\* C11: riskFactors lists exactly the strictly positive terms: every listed
\* factor has a score > 0, a term that is 0 is not listed, a positive term is
\* listed once with its value, and min(100, sum of the listed scores) is
\* overallRisk.
C11_ListsExactlyPositiveTerms ==
    risk # Null =>
        LET list == risk[1].riskFactors IN
        /\ \A i \in 1..Len(list) : list[i].score > 0
        /\ \A k \in 1..Len(EvaluationOrder) :
              LET name == EvaluationOrder[k]
                  term == TermOf(name, lifestyle, params)
              IN IF term > 0
                 THEN /\ Cardinality(ListedAt(list, name)) = 1
                      /\ \A i \in ListedAt(list, name) : list[i].score = term
                 ELSE ListedAt(list, name) = {}
        /\ \A i \in 1..Len(list) :
              \E k \in 1..Len(EvaluationOrder) : list[i].factor = EvaluationOrder[k]
        /\ Min(Points(100), SumScores(list)) = risk[1].overallRisk

\* a report computed from a lifestyle with zero and positive terms
C11_Witness ==
    /\ risk # Null
    /\ SleepRisk(lifestyle) = 0
    /\ ScreenRisk(lifestyle) = 0
    /\ WaterRisk(lifestyle) > 0
    /\ MealRisk(lifestyle) > 0
    /\ ListedAt(risk[1].riskFactors, "Inadequate Sleep") = {}
    /\ ListedAt(risk[1].riskFactors, "Low Water Intake") # {}

\* the factor name at each position of the list
FactorNames(list) == [i \in 1..Len(list) |-> list[i].factor]

\* the position of a factor name in the evaluation order
EvaluationRank(name) ==
    CHOOSE k \in 1..Len(EvaluationOrder) : EvaluationOrder[k] = name

\* the lifestyle whose only positive terms are activity, stress and water,
\* 15 each
FifteenEach(l, p) ==
    /\ SleepRisk(l) = 0
    /\ ExerciseRisk(l) = Points(15)
    /\ StressRisk(l, p) = Points(15)
    /\ ScreenRisk(l) = 0
    /\ WaterRisk(l) = Points(15)
    /\ MealRisk(l) = 0

\* C12: riskFactors is ordered by non-increasing score and factors of equal
\* score stand in evaluation order (sleep, activity, stress, screen, water,
\* meal); with scores 15/15/15 the order is 'Low Physical Activity', 'Poor
\* Stress Management', 'Low Water Intake'.
C12_FactorsOrderedStably ==
    risk # Null =>
        LET list == risk[1].riskFactors IN
        /\ \A i, j \in 1..Len(list) :
              i < j =>
                  /\ list[i].score >= list[j].score
                  /\ list[i].score = list[j].score
                        => EvaluationRank(list[i].factor) < EvaluationRank(list[j].factor)
        /\ FifteenEach(lifestyle, params) =>
              FactorNames(list) = <<"Low Physical Activity", "Poor Stress Management",
                                    "Low Water Intake">>

\* the report of the 15/15/15 lifestyle
C12_Witness ==
    /\ risk # Null
    /\ FifteenEach(lifestyle, params)
    /\ Len(risk[1].riskFactors) = 3

----------------------------------------------------------------------------
(* Properties of the findings list, checked under SpecPredict.             *)

\* weight / (height / 100)^2 > c
ReferenceBmiAbove(p, c) == p.weight * 10000 > c * p.height * p.height

\* the rules (1..10, in source order) whose guard the input satisfies
SatisfiedRules(d, l, p) ==
    { r \in 1..10 :
        CASE r = 1 -> d.vata > 40 /\ p.stressLevel = "high" /\ l.sleepHours < 12
          [] r = 2 -> d.vata > 40 /\ p.digestion = "irregular"
          [] r = 3 -> d.pitta > 40 /\ p.stressLevel = "high" /\ l.mealTiming = "irregular"
          [] r = 4 -> d.pitta > 40 /\ p.bodyTemperature = "warm"
          [] r = 5 -> d.kapha > 40 /\ ReferenceBmiAbove(p, 25)
                        /\ l.exerciseFrequency = "rarely"
          [] r = 6 -> d.kapha > 40 /\ p.digestion = "slow" /\ l.waterIntake = "low"
          [] r = 7 -> l.screenTime > 16 /\ p.stressLevel = "high"
          [] r = 8 -> l.sleepHours < 12
          [] r = 9 -> l.stressManagement = "none" /\ p.stressLevel = "high"
          [] r = 10 -> p.energyLevel = "variable" /\ d.vata > 35 }

\* a balanced profile under little stress and enough sleep
QuietInput(d, l, p) ==
    /\ d.vata <= 35
    /\ d.pitta <= 40
    /\ d.kapha <= 40
    /\ p.stressLevel # "high"
    /\ l.sleepHours >= 12

\* C13: predictDiseases returns an empty list whenever no guard is
\* satisfied; in particular whenever vata <= 35, pitta <= 40, kapha <= 40,
\* stressLevel is not high and sleepHours >= 6, whatever the other inputs.
C13_EmptyWhenNoGuardHolds ==
    diseases # Null =>
        /\ SatisfiedRules(scores[1], lifestyle, params) = {} => diseases[1] = <<>>
        /\ QuietInput(scores[1], lifestyle, params) => diseases[1] = <<>>

\* an empty result for a quiet input that has kapha at its threshold, a BMI
\* above 25 and no exercise
C13_Witness ==
    /\ diseases # Null
    /\ QuietInput(scores[1], lifestyle, params)
    /\ scores[1].kapha = 40
    /\ ReferenceBmiAbove(params, 25)
    /\ lifestyle.exerciseFrequency = "rarely"
    /\ diseases[1] = <<>>

\* C14: the result holds exactly one finding per satisfied guard of the ten
\* rules: its length is the number of satisfied guards, every finding is the
\* one of a satisfied rule, and no two findings share a disease name.
C14_OneFindingPerGuard ==
    diseases # Null =>
        LET list == diseases[1]
            sat == SatisfiedRules(scores[1], lifestyle, params)
        IN /\ Len(list) = Cardinality(sat)
           /\ \A i \in 1..Len(list) :
                 \E r \in sat : list[i].disease = RuleOrder[r]
           /\ \A i, j \in 1..Len(list) :
                 list[i].disease = list[j].disease => i = j

\* a result with several findings, two of them of equal probability
C14_Witness ==
    /\ diseases # Null
    /\ Len(diseases[1]) >= 4
    /\ Cardinality(SatisfiedRules(scores[1], lifestyle, params)) = Len(diseases[1])
    /\ \E i \in 1..(Len(diseases[1]) - 1) :
          SameProbability(diseases[1][i].probability, diseases[1][i + 1].probability)

\* the 'Metabolic Syndrome Risk' findings of a list
MetabolicFindings(list) ==
    { list[i] : i \in { j \in 1..Len(list) : list[j].disease = "Metabolic Syndrome Risk" } }

\* C15: with BMI = weight / (height/100)^2, 'Metabolic Syndrome Risk' is
\* emitted exactly when kapha > 40, BMI > 25 and the exercise frequency is
\* 'rarely'; its severity is 'high' exactly when BMI > 30 and 'moderate'
\* otherwise, and its probability is 0.55 + kapha/200 + (BMI - 25)/50.  The
\* exercise frequency is the one the valid input carries,
\* HealthParameters.exerciseFrequency.
C15_MetabolicRuleAsStated ==
    (diseases # Null /\ ValidLifestyle(lifestyle) /\ ValidParams(params)) =>
        LET found == MetabolicFindings(diseases[1])
            one == params.height * params.height
        IN /\ found # {} <=>
                 /\ scores[1].kapha > 40
                 /\ ReferenceBmiAbove(params, 25)
                 /\ params.exerciseFrequency = "rarely"
           /\ \A f \in found :
                 /\ f.severity = IF ReferenceBmiAbove(params, 30) THEN "high" ELSE "moderate"
                 /\ f.probability.pm =
                        550 * one + 5 * scores[1].kapha * one
                            + 20 * (10000 * params.weight - 25 * one)

----------------------------------------------------------------------------
(* Further properties of calculateDoshaProfile, checked under SpecProfile. *)

\* ages the profile of the state is compared at
ComparedAges == {18, 30, 65}

\* the inputs that agree with p on the six table attributes
SameTableAttributes(p) ==
    { [p EXCEPT !.age = a, !.weight = size[1], !.height = size[2],
                !.exerciseFrequency = ef] :
        a \in ComparedAges, size \in BodySizes, ef \in ExerciseFrequencies }

\* C16: calculateDoshaProfile does not depend on age, weight, height or
\* exerciseFrequency: every valid input that agrees with the input of the
\* call on the six table attributes has the profile the call returned.
C16_ProfileIgnoresOtherAttributes ==
    (scores # Null /\ ValidParams(params)) =>
        \A q \in SameTableAttributes(params) : calculateDoshaProfile(q) = scores[1]

\* a profile returned for a valid input that exercises rarely, while an
\* input of another age, size and exercise frequency shares its table
\* attributes
C16_Witness ==
    /\ scores # Null
    /\ ValidParams(params)
    /\ params.exerciseFrequency = "rarely"
    /\ \E q \in SameTableAttributes(params) :
          /\ q.age # params.age
          /\ q.weight # params.weight
          /\ q.height # params.height
          /\ q.exerciseFrequency = "daily"

\* C17: for every fully populated valid input the accumulator total vata +
\* pitta + kapha before normalisation is at least 1, so the division is
\* never by zero and the profile is a number triple.
C17_TotalIsPositive ==
    (scores # Null /\ ValidParams(params)) =>
        /\ TotalPoints(params) >= 1
        /\ ~scores[1].nan

\* a profile of a valid input whose kapha points equal its vata and pitta
\* points together
C17_Witness ==
    /\ scores # Null
    /\ ValidParams(params)
    /\ KaphaPoints(params) = VataPoints(params) + PittaPoints(params)
    /\ ~scores[1].nan

----------------------------------------------------------------------------
(* Properties of the server's saves and reads, checked under SpecStore.    *)

\* the GETs of a category's latest record that were answered with success
AnsweredGets ==
    { i \in DOMAIN requests :
        /\ requests[i].method = "GET"
        /\ requests[i].endpoint \in Categories
        /\ requests[i].pc = "done"
        /\ requests[i].status = 200 }

\* what a GET returns for the body and timestamp of request j, and for no
\* request (j = 0)
RecordOf(j) ==
    IF j = 0 THEN Null ELSE Some(Stored(requests[j].body, requests[j].timestamp))

\* no two requests overlapped: each arrived after the ones before it had
\* been answered
OneAtATime == \A j \in DOMAIN requests : requests[j].alone

\* C19 as stated: after a sequence of completed requests, a GET returns the
\* body, with its timestamp, of the POST of its user and category that
\* completed most recently, or null if no POST of the user to the category
\* has completed.
C19_ReturnsLastCompletedPost ==
    OneAtATime =>
        \A i \in AnsweredGets : requests[i].result = RecordOf(requests[i].completed)

\* no store operation failed
NoneFailed == \A j \in DOMAIN requests : requests[j].status # 500

\* C19: a GET returns the body, with its timestamp, of the POST of its user
\* and category whose 'latest' write was the last before the GET read the
\* store, whether or not that POST has completed or will succeed, or null if
\* no POST of the user has written the category.  When no two requests
\* overlapped and no save failed, that POST is the one that completed most
\* recently.
C19_ReturnsLastWritten ==
    /\ \A i \in AnsweredGets : requests[i].result = RecordOf(requests[i].written)
    /\ (OneAtATime /\ NoneFailed) =>
           \A i \in AnsweredGets : requests[i].result = RecordOf(requests[i].completed)

\* a GET that returned the record written last while another POST was the
\* one that had completed last
C19_Witness ==
    \E i \in AnsweredGets :
        /\ requests[i].written # 0
        /\ requests[i].completed # 0
        /\ requests[i].written # requests[i].completed
        /\ requests[i].result = RecordOf(requests[i].written)

----------------------------------------------------------------------------
(* Properties of the server's authentication, checked under SpecAuth.      *)

\* the request came without a token or with one that cannot be verified
Unverifiable(req) == req.token \notin IssuedTokens

\* C20: every data endpoint (profile, dosha-assessment, health-assessment,
\* history, predictions, lifestyle, nearby-doctors) called with a missing or
\* unverifiable token answers 401, returns no stored data, and leaves the
\* store unchanged: the request gets no user and no timestamp, and no record
\* of the store carries its body.
C20_UnauthorizedIsRejected ==
    /\ \A i \in DOMAIN requests :
          Unverifiable(requests[i]) =>
              /\ requests[i].pc = "done"
              /\ requests[i].status = 401
              /\ requests[i].result = Null
              /\ requests[i].user = Null
              /\ requests[i].timestamp = 0
    /\ \A key \in DOMAIN kv :
          kv[key].body # 0 => ~Unverifiable(requests[kv[key].body])

\* a POST without a token and a GET with a forged one, both answered 401,
\* while the store holds a record the signed-in user saved
C20_Witness ==
    /\ \E i, j \in DOMAIN requests :
          /\ requests[i].token = Undefined
          /\ requests[i].method = "POST"
          /\ requests[i].status = 401
          /\ requests[j].token = "forged-u1"
          /\ requests[j].method = "GET"
          /\ requests[j].endpoint = "dosha"
          /\ requests[j].status = 401
          /\ requests[j].result = Null
    /\ KvGet(kv, LatestKey("u1", "dosha")) # Null

----------------------------------------------------------------------------
(* Properties of the server with several users, checked under SpecUsers.   *)

\* the GETs of the endpoint that were answered with success
AnsweredReads(endpoints) ==
    { i \in DOMAIN requests :
        /\ requests[i].method = "GET"
        /\ requests[i].endpoint \in endpoints
        /\ requests[i].pc = "done"
        /\ requests[i].status = 200 }

\* the record is the one a POST of the user wrote
WrittenBy(record, user) ==
    /\ record.body \in DOMAIN requests
    /\ requests[record.body].method = "POST"
    /\ requests[record.body].user = Some(user)

\* C21: a request authenticated as user U reads and writes only U's keys: no
\* GET of a latest record or of a history by U returns a record another user
\* wrote, and every record under a key of U was written by a POST of U, so
\* that no POST changes what another user reads.
C21_UsersAreIsolated ==
    /\ \A i \in AnsweredReads(Categories) :
          requests[i].result # Null =>
              WrittenBy(requests[i].result[1], requests[i].user[1])
    /\ \A i \in AnsweredReads({"history"}) :
          \A k \in 1..Len(requests[i].result[1]) :
              WrittenBy(requests[i].result[1][k], requests[i].user[1])
    /\ \A key \in DOMAIN kv :
          key[2] # "profile" => WrittenBy(kv[key], key[1])

\* u2 read its history and got an entry while the store held a history entry
\* of u1
C21_Witness ==
    /\ \E i \in AnsweredReads({"history"}) :
          /\ requests[i].user = Some("u2")
          /\ Len(requests[i].result[1]) = 1
    /\ \E key \in DOMAIN kv : key[1] = "u1" /\ key[3] = "history"


\* the bodies of the entries of a history, in the order returned
EntryBodies(history) == { history[k].body : k \in 1..Len(history) }

\* C22: the history endpoint returns one entry per successful POST of the
\* user to the category, none overwritten or lost even when POSTs obtained
\* the same timestamp, ordered by timestamp descending.
C22_HistoryIsComplete ==
    \A i \in AnsweredReads({"history"}) :
        LET history == requests[i].result[1] IN
        /\ Len(history) = Cardinality(requests[i].posted)
        /\ EntryBodies(history) = requests[i].posted
        /\ \A k \in 1..(Len(history) - 1) :
              history[k].timestamp >= history[k + 1].timestamp


----------------------------------------------------------------------------
(* Properties of overlapping saves, checked under SpecStore.               *)

\* the save requests of a user to a category
SavesOf(user, category) ==
    { j \in DOMAIN requests :
        /\ requests[j].method = "POST"
        /\ requests[j].endpoint = category
        /\ requests[j].user = Some(user) }

\* the history keys of a user and category that hold an entry
HistoryKeysOf(user, category) ==
    { key \in DOMAIN kv : HasHistoryPrefix(key, user, category) }

\* C25: once the concurrent saves of a user to a history category have all
\* completed, the 'latest' record is the history entry that carries the
\* greatest timestamp.
C25_LatestIsNewestEntry ==
    \A user \in Users, category \in HistoryCategories :
        LET saves == SavesOf(user, category)
            keys == HistoryKeysOf(user, category)
        IN (/\ saves # {}
            /\ \A j \in saves : requests[j].pc = "done" /\ requests[j].status = 200)
           => /\ LatestKey(user, category) \in DOMAIN kv
              /\ \E key \in keys :
                    /\ \A other \in keys : kv[other].timestamp <= kv[key].timestamp
                    /\ kv[LatestKey(user, category)] = kv[key]


----------------------------------------------------------------------------
(* Properties of the App's handlers and their interleavings, checked       *)
(* under SpecApp and, for what must eventually happen, SpecAppFair.        *)

\* C26: in every reachable App state a step past 'auth' comes with an access
\* token, whatever the interleaving of checkSession, handleAuthSuccess,
\* loadExistingData, the completion handlers, retakeAssessment and
\* handleLogout.
C26_WizardStepsHoldToken ==
    step \in {"dosha", "lifestyle", "dashboard"} => accessToken # Null


\* a step that ends the run of a completion handler, its saves resolved or
\* thrown
HandlerEnds(name) == Running(name) /\ handler' = Null

\* a step that starts the run of a completion handler
HandlerStarts(name) == handler = Null /\ handler' # Null /\ handler'[1].name = name

\* C23: with an access token handleDoshaComplete ends with step 'lifestyle'
\* and doshaScores set, and handleLifestyleComplete with step 'dashboard'
\* and predictions and lifestyleRisk set, whether the saves resolve or
\* throw; without an access token neither handler runs.
C23_SaveFailuresNeverBlock ==
    [][/\ HandlerEnds("handleDoshaComplete") =>
              step' = "lifestyle" /\ doshaScores' = Some(handler[1].scores)
       /\ HandlerEnds("handleLifestyleComplete") =>
              /\ step' = "dashboard"
              /\ predictions' = handler[1].predictions
              /\ lifestyleRisk' = Some(handler[1].risk)
       /\ (HandlerStarts("handleDoshaComplete") \/ HandlerStarts("handleLifestyleComplete"))
              => accessToken # Null]_vars


\* a step that ends a run of loadExistingData
LoaderEnded(run) ==
    /\ LoaderRuns(run)
    /\ IF run = "handleAuthSuccess" THEN handler' = Null ELSE session' = "done"

\* the four 'latest' records of the token's user are all stored
AllReturned(token) ==
    \A category \in Categories : LoadLatest(token, category) # Null

DashboardFromStore ==
    /\ step = "dashboard"
    /\ lifestyleFactors # Null
    /\ "timestamp" \in DOMAIN lifestyleFactors[1]

LoadingHandlerRuns == handler # Null \/ session = "loadExistingData"

\* a step that ends the run of a handler that set loading
LoadingHandlerEnds ==
    \/ handler # Null /\ handler' = Null
    \/ session = "loadExistingData" /\ session' = "done"

\* C28: every run of loadExistingData, handleDoshaComplete and
\* handleLifestyleComplete comes to its end and sets loading to false there,
\* on the resolved path, the thrown path and the early return on missing
\* health data; once no such handler runs, loading is false.
C28_LoadingIsReset ==
    /\ (handler # Null) ~> (handler = Null)
    /\ (session = "loadExistingData") ~> (session = "done")
    /\ [][LoadingHandlerEnds => ~loading']_vars
    /\ [](~LoadingHandlerRuns => ~loading)

\* handleLifestyleComplete has returned early on missing health data
\* (lifestyleFactors set, healthParams null) and nothing is loading
C28_Witness ==
    /\ step = "lifestyle"
    /\ accessToken # Null
    /\ lifestyleFactors # Null
    /\ healthParams = Null
    /\ ~LoadingHandlerRuns
    /\ ~loading


\* C24: whenever the dashboard shows data loadExistingData took from the
\* store, the four records belong to one assessment run: the predictions and
\* the lifestyle risk shown are those computed from the dosha scores and
\* health parameters shown.
C24_LoadedRecordsAreOneRun ==
    DashboardFromStore =>
        /\ healthParams # Null
        /\ doshaScores # Null
        /\ predictions = predictDiseases(doshaScores[1], lifestyleFactors[1],
                                         healthParams[1])
        /\ lifestyleRisk = Some(calculateLifestyleRisk(lifestyleFactors[1],
                                                       healthParams[1]))


----------------------------------------------------------------------------
(* Properties relating the findings of predictDiseases, checked under      *)
(* SpecPredict, and the two scorers, checked under SpecScorers.            *)

\* C29: for every valid input with the profile calculateDoshaProfile gives,
\* a list that has 'Anxiety & Sleep Disorders' also has 'Sleep Deprivation
\* Syndrome', and the former comes earlier.
C29_AnxietyBeforeSleepDeprivation ==
    (diseases # Null /\ ValidParams(params)) =>
        LET anxiety == PositionOf(diseases[1], "Anxiety & Sleep Disorders")
            sleep == PositionOf(diseases[1], "Sleep Deprivation Syndrome")
        IN anxiety # 0 => (sleep # 0 /\ anxiety < sleep)

C29_Witness ==
    /\ diseases # Null
    /\ ValidParams(params)
    /\ PositionOf(diseases[1], "Anxiety & Sleep Disorders") # 0
    /\ scores[1].vata < 50

\* the report lists the factor with a score that satisfies the test
Lists(report, name, Test(_)) ==
    \E f \in FactorsOf(report) : f.factor = name /\ Test(f.score)

IsTwentyFive(score) == score = Points(25)

IsPositive(score) == score > 0

\* C30: on the same lifestyle and attrs predictDiseases emits 'Chronic
\* Stress & Burnout Risk' exactly when calculateLifestyleRisk lists 'Poor
\* Stress Management' with score 25, and when it emits 'Digital Eye Strain &
\* Mental Fatigue' calculateLifestyleRisk lists 'Excessive Screen Time' with
\* a positive score.
C30_ScorersAgree ==
    (diseases # Null /\ risk # Null) =>
        /\ PositionOf(diseases[1], "Chronic Stress & Burnout Risk") # 0
              <=> Lists(risk[1], "Poor Stress Management", IsTwentyFive)
        /\ PositionOf(diseases[1], "Digital Eye Strain & Mental Fatigue") # 0
              => Lists(risk[1], "Excessive Screen Time", IsPositive)

C30_Witness ==
    /\ diseases # Null
    /\ risk # Null
    /\ PositionOf(diseases[1], "Chronic Stress & Burnout Risk") # 0
    /\ PositionOf(diseases[1], "Digital Eye Strain & Mental Fatigue") # 0
    /\ lifestyle.screenTime = 17

====
